---- MODULE Spec2Model ----
(***************************************************************************)
(* Model of LivePriceManager (src/services/polymarketService.ts, lines     *)
(* 15-138): the single streaming connection of the dashboard, its          *)
(* subscription registry, tick router and status broadcaster; and of the   *)
(* dashboard state of src/App.tsx that consumes it: the market collection  *)
(* with its snapshot reconciler, the market rows and the connectivity      *)
(* indicator.                                                              *)
(*                                                                         *)
(* The browser is the environment: it opens and closes transports, fires   *)
(* timers and delivers inbound frames.  Every handler of the manager is    *)
(* one action.  The variable ev records what the last handler did (calls   *)
(* to connect(), frames handed to ws.send, callbacks invoked); it is       *)
(* overwritten by every action and is what the properties observe.         *)
(*                                                                         *)
(* Spec is the whole manager with a few sample payloads on the feed.       *)
(* LiveSpec is the connection controller under a fair reconnect timer.     *)
(* TickSpec is the tick router on every payload of Frames.                 *)
(* MergeSpec is the dashboard state alone: ticks are invocations of the    *)
(* price callback, listing and metadata responses arrive in any order.     *)
(* UiSpec is the dashboard on top of the manager: the subscription effect  *)
(* calls subscribe(), frames on the transport drive the price callback.    *)
(* FetchSpec is the listing requests of the dashboard: fetchData() is      *)
(* called by the refresh effect, its timer and the refresh button, and the *)
(* responses of getMarkets() arrive, or fail, in any order.                *)
(***************************************************************************)
EXTENDS Integers, Sequences, FiniteSets, TLC

\* ---------------------------------------------------------------- bounds
NumIds       == 2    \* instrument ids are 1..NumIds
NumCbs       == 2    \* tick callbacks are 1..NumCbs
NumListeners == 1    \* status observers are 1..NumListeners
MaxSubLen    == 2    \* longest id list passed to subscribe()
MaxSockets   == 2    \* WebSocket objects that exist at the same time
MaxPrice     == 2    \* decimal price strings denote 0..MaxPrice
MaxAsks      == 2    \* longest ask list of a single-object frame
MaxItems     == 2    \* longest array frame
MaxTick      == 3    \* prices handed to the price callback are 1..MaxTick
MaxInFlight  == 2    \* listing requests awaiting their response

Ids       == 1..NumIds
Cbs       == 1..NumCbs
Listeners == 1..NumListeners
Sockets   == 1..MaxSockets

\* ------------------------------------------------------------ data types
\* WebSocket.readyState; FREE is a slot holding no WebSocket object (none
\* was created in it, or the object is closed and no longer referenced).
ReadyStates == {"FREE", "CONNECTING", "OPEN", "CLOSING", "CLOSED"}

\* Number(x) of something that is not a number.
NaN == -1

RECURSIVE SeqsUpTo(_, _)
SeqsUpTo(S, n) ==
  IF n = 0 THEN {<<>>}
  ELSE LET T == SeqsUpTo(S, n - 1)
       IN  T \cup {Append(t, x) : t \in {u \in T : Len(u) = n - 1}, x \in S}

\* The id lists passed to subscribe().
IdLists == SeqsUpTo(Ids, MaxSubLen)

Range(s) == {s[i] : i \in 1..Len(s)}

NoDup(s) == \A i, j \in 1..Len(s) : i # j => s[i] # s[j]

\* The JSON value of a price field: a decimal string ("str", v), a string
\* that is no number ("bad"), the number 0 ("zero"), or no field ("absent").
Absent    == [t |-> "absent", v |-> 0]
BadStr    == [t |-> "bad", v |-> 0]
NumZero   == [t |-> "zero", v |-> 0]
NullEntry == [t |-> "null", v |-> 0]
Str(n)    == [t |-> "str", v |-> n]
PriceStrs == {Str(n) : n \in 0..MaxPrice}

\* asks[0]: null, or an object whose price is a decimal string or garbage.
AskEntries == PriceStrs \cup {BadStr, NullEntry}
\* asks[1], asks[2], ...: objects with a positive decimal price.
AskTails   == {Str(n) : n \in 1..MaxPrice}
\* asks: a non-empty list is a first entry followed by further asks.
AskLists   == {<<>>} \cup
              {<<e>> \o t : e \in AskEntries, t \in SeqsUpTo(AskTails, MaxAsks - 1)}
\* last_trade_price
LtpValues  == {Absent, NumZero, BadStr, Str(0), Str(MaxPrice)}

\* One element of an inbound frame after JSON.parse: null, or an object.
\* asset_id 0 is a missing asset_id; hasAsks tells whether the object has an
\* asks array at all (an empty array is present but empty).
NullItem == [t |-> "null", asset_id |-> 0, hasAsks |-> FALSE, asks |-> <<>>,
             last_trade_price |-> Absent]

Obj(a, h, l, p) ==
  [t |-> "obj", asset_id |-> a, hasAsks |-> h, asks |-> l, last_trade_price |-> p]

\* Elements of single-object frames.
Items ==
  {NullItem} \cup
  {Obj(a, TRUE, l, p) : a \in 0..NumIds, l \in AskLists, p \in LtpValues} \cup
  {Obj(a, FALSE, <<>>, p) : a \in 0..NumIds, p \in LtpValues}

\* Elements of array frames: null, an object without asset_id, and ticks for
\* instrument 1 with one ask, a null ask, or a last-trade price only.
ArrayItems ==
  {NullItem, Obj(0, FALSE, <<>>, Str(MaxPrice))} \cup
  {Obj(1, TRUE, l, Absent) : l \in {<<Str(1)>>, <<NullEntry>>}} \cup
  {Obj(1, FALSE, <<>>, p) : p \in {Str(0), Str(MaxPrice)}}

\* event.data of a message event: text that is no JSON ("garbage", e.g. a
\* bare PONG), one JSON object, or a JSON array.
Frames ==
  {[kind |-> "garbage", items |-> <<>>]} \cup
  {[kind |-> "object", items |-> <<d>>] : d \in Items} \cup
  {[kind |-> "array", items |-> l] : l \in SeqsUpTo(ArrayItems, MaxItems)}

\* No payload.
NoFrame == [kind |-> "none", items |-> <<>>]

\* A few payloads of every kind.
SampleFrames ==
  {[kind |-> "garbage", items |-> <<>>],
   [kind |-> "object", items |-> <<Obj(1, TRUE, <<Str(1)>>, Absent)>>],
   [kind |-> "object", items |-> <<Obj(1, FALSE, <<>>, Str(0))>>],
   [kind |-> "array", items |-> <<NullItem, Obj(1, FALSE, <<>>, Str(MaxPrice))>>]}

\* ------------------------------------------------------ JavaScript values
\* Number(x) for the value of a price field.
Number(f) ==
  CASE f.t = "str"  -> f.v
    [] f.t = "zero" -> 0
    [] OTHER        -> NaN

\* Truthiness of the value of a price field: every non-empty string is
\* truthy, "0" included; the number 0 and undefined are falsy.
Truthy(f) == f.t \in {"str", "bad"}

\* x > 0 in JavaScript: false for NaN.
GreaterThan0(x) == x # NaN /\ x > 0

\* ------------------------------------------------------------------ state
VARIABLES
  sockets,               \* readyState of every WebSocket object
  ws,                    \* this.ws: a socket, or 0 for null
  subscribers,           \* this.subscribers: Map from key to callback
  statusListeners,       \* this.statusListeners: Set of observers
  pendingSubscriptions,  \* this.pendingSubscriptions: Set, in insertion order
  isConnected,           \* this.isConnected
  heartbeatInterval,     \* this.heartbeatInterval: "null", or a timer handle
                         \* that is "active" or "cleared"
  activeHeartbeats,      \* number of interval timers that are running
  reconnectTimers,       \* number of pending setTimeout(connect) timers
  everSubscribed,        \* history: every id ever passed to subscribe()
  everClosed,            \* history: some transport has closed
  subFrameOnWs,          \* history: a subscription frame went to this.ws
  ev,                    \* what the last handler did
  inbound,               \* the payload a run of the tick router is about
                         \* (TickSpec), NoFrame otherwise
  supersededCbs,         \* history (TickSpec): callbacks that subscribe()
                         \* replaced by another callback
  markets,               \* App: the market collection (useState)
  wsConnected,           \* App: the flag behind the connectivity indicator
  expandedMarketId,      \* App: id of the expanded row, 0 for null
  rows,                  \* MarketRow: the market each row displays
  ticked,                \* history: ids of displayed tokens a tick was for
  appEv,                 \* what the last handler of the dashboard did
  activeCategory,        \* App: id of the selected category (useState)
  inflight,              \* calls of fetchData() awaiting getMarkets(), in
                         \* the order they were made (FetchSpec)
  shown,                 \* history (FetchSpec): the request whose response
                         \* setMarkets() stored last
  lastOutcome            \* history (FetchSpec): how the request made last
                         \* has ended

mgrVars == <<sockets, ws, subscribers, statusListeners, pendingSubscriptions,
             isConnected, heartbeatInterval, activeHeartbeats, reconnectTimers,
             everSubscribed, everClosed, subFrameOnWs, ev, inbound>>

fetchVars == <<activeCategory, inflight, shown, lastOutcome>>

appVars == <<markets, wsConnected, expandedMarketId, rows, ticked, appEv,
             fetchVars>>

vars == <<mgrVars, supersededCbs, appVars>>

\* The record every handler leaves in ev.
Quiet(op) ==
  [op |-> op,             \* the handler that ran
   ids |-> {},            \* subscribe: the ids in the list passed
   n |-> 0,               \* subscribe: the length of the list passed
   cb |-> 0,              \* subscribe: the callback passed
   wasConnected |-> isConnected,   \* isConnected when the handler started
   wsBefore |-> IF ws = 0 THEN "null" ELSE sockets[ws],
                          \* this.ws.readyState when the handler started
   connectCalls |-> 0,    \* calls to connect()
   created |-> 0,         \* new WebSocket(...) executed
   sent |-> <<>>,         \* frames handed to ws.send, in order
   calls |-> <<>>,        \* tick callbacks invoked, in order
   notified |-> <<>>,     \* status observers invoked, in order
   threw |-> FALSE]       \* an exception escaped the handler

Live(socks) == {s \in Sockets : socks[s] \in {"CONNECTING", "OPEN", "CLOSING"}}

\* Slots in which new WebSocket(...) can place an object once this.ws is
\* reassigned: empty slots, and the slot of a closed this.ws.
Reusable(socks, w) ==
  {s \in Sockets : socks[s] = "FREE" \/ (s = w /\ socks[s] = "CLOSED")}

Min(S) == CHOOSE x \in S : \A y \in S : x <= y

\* ----------------------------------------------------- Set.prototype.add
SetAddAlways(s, x) == Append(s, x)

SetAdd(s, x) == IF x \in Range(s) THEN s ELSE Append(s, x)

RECURSIVE AddAll(_, _)
AddAll(s, ids) ==
  IF ids = <<>> THEN s ELSE AddAll(SetAdd(s, Head(ids)), Tail(ids))

\* -------------------------------------------------------------- connect()
\* The guard of connect(): nothing to do when this.ws is open or connecting.
connectSkipsAnyWs(socks, w) == w # 0

connectIsNoOp(socks, w) == w # 0 /\ socks[w] \in {"OPEN", "CONNECTING"}

\* connect(): the sockets and this.ws it leaves, and whether it created one.
connect(socks, w) ==
  IF connectIsNoOp(socks, w)
  THEN [sockets |-> socks, ws |-> w, created |-> 0]
  ELSE LET n == Min(Reusable(socks, w))
           released == IF w # 0 /\ socks[w] = "CLOSED"
                       THEN [socks EXCEPT ![w] = "FREE"] ELSE socks
       IN  [sockets |-> [released EXCEPT ![n] = "CONNECTING"],
            ws |-> n, created |-> 1]

\* connect() can run: it returns early, or there is room for a new object.
CanConnect(socks, w) == connectIsNoOp(socks, w) \/ Reusable(socks, w) # {}

\* ------------------------------------------------------------ ws.send(..)
SubFrame(assets, rs) == [type |-> "market", assets_ids |-> assets, rs |-> rs]
PingFrame(rs)        == [type |-> "ping", assets_ids |-> <<>>, rs |-> rs]

IsSub(f) == f.type = "market"

\* ------------------------------------------- flushPendingSubscriptions()
\* The frames handed to ws.send, the pending set left, and whether send
\* threw (send throws on a socket that is still connecting; on a closing
\* socket it accepts the frame and drops it).
flushOnePerId(pend, socks, w) ==
  IF Len(pend) = 0 \/ w = 0
  THEN [sent |-> <<>>, pending |-> pend, threw |-> FALSE]
  ELSE [sent |-> [i \in 1..Len(pend) |-> SubFrame(<<pend[i]>>, socks[w])],
        pending |-> <<>>, threw |-> FALSE]

flushKeepsPending(pend, socks, w) ==
  IF Len(pend) = 0 \/ w = 0
  THEN [sent |-> <<>>, pending |-> pend, threw |-> FALSE]
  ELSE [sent |-> <<SubFrame(pend, socks[w])>>, pending |-> pend, threw |-> FALSE]

flushPendingSubscriptions(pend, socks, w) ==
  IF Len(pend) = 0 \/ w = 0
  THEN [sent |-> <<>>, pending |-> pend, threw |-> FALSE]
  ELSE IF socks[w] = "CONNECTING"
  THEN [sent |-> <<>>, pending |-> pend, threw |-> TRUE]
  ELSE [sent |-> <<SubFrame(pend, socks[w])>>, pending |-> <<>>, threw |-> FALSE]

\* ------------------------------------------------------- notifyStatus(..)
RECURSIVE InOrder(_)
InOrder(S) == IF S = {} THEN <<>> ELSE <<Min(S)>> \o InOrder(S \ {Min(S)})

notifyStatus(listeners, status) ==
  LET l == InOrder(listeners)
  IN  [i \in 1..Len(l) |-> [listener |-> l[i], status |-> status]]

\* ------------------------------------------------------ processUpdate(..)
\* price > 0, the test that lets a tick through.
ForwardsZero(price) == price # NaN /\ price >= 0

Forwardable(price) == GreaterThan0(price)

\* The price processUpdate extracts, or that reading asks[0].price threw.
ExtractPrice(data) ==
  IF data.hasAsks /\ Len(data.asks) > 0
  THEN IF data.asks[1].t = "null"
       THEN [threw |-> TRUE, price |-> 0]
       ELSE [threw |-> FALSE, price |-> Number(data.asks[1])]
  ELSE IF Truthy(data.last_trade_price)
  THEN [threw |-> FALSE, price |-> Number(data.last_trade_price)]
  ELSE [threw |-> FALSE, price |-> 0]

\* processUpdate(data): the callbacks it invokes, and whether it threw.
processUpdateUnguarded(data, subs) ==
  IF data.t = "null"
  THEN [threw |-> TRUE, calls |-> <<>>]
  ELSE LET x == ExtractPrice(data)
           keys == InOrder(DOMAIN subs)
       IN  IF x.threw THEN [threw |-> TRUE, calls |-> <<>>]
           ELSE IF Forwardable(x.price)
           THEN [threw |-> FALSE,
                 calls |-> [i \in 1..Len(keys) |->
                              [cb |-> subs[keys[i]], assetId |-> data.asset_id,
                               price |-> x.price]]]
           ELSE [threw |-> FALSE, calls |-> <<>>]

processUpdate(data, subs) ==
  IF data.t = "null" \/ data.asset_id = 0
  THEN [threw |-> FALSE, calls |-> <<>>]
  ELSE LET x == ExtractPrice(data)
           keys == InOrder(DOMAIN subs)   \* Map.forEach
       IN  IF x.threw THEN [threw |-> TRUE, calls |-> <<>>]
           ELSE IF Forwardable(x.price)
           THEN [threw |-> FALSE,
                 calls |-> [i \in 1..Len(keys) |->
                              [cb |-> subs[keys[i]], assetId |-> data.asset_id,
                               price |-> x.price]]]
           ELSE [threw |-> FALSE, calls |-> <<>>]

\* data.forEach(item => this.processUpdate(item)): stops at the first throw.
RECURSIVE forEachProcess(_, _, _)
forEachProcess(items, subs, acc) ==
  IF items = <<>> THEN acc
  ELSE LET r == processUpdate(Head(items), subs)
       IN  IF r.threw THEN acc
           ELSE forEachProcess(Tail(items), subs, acc \o r.calls)

\* ------------------------------------------- startHeartbeat/stopHeartbeat
\* stopHeartbeat(): clearInterval on the stored handle, which stays stored.
stopHeartbeatKeepsTimer(hb, active) == [hb |-> hb, active |-> active]

stopHeartbeat(hb, active) ==
  IF hb = "active" THEN [hb |-> "cleared", active |-> active - 1]
  ELSE [hb |-> hb, active |-> active]

startHeartbeat(hb, active) ==
  [hb |-> "active", active |-> stopHeartbeat(hb, active).active + 1]

\* -------------------------------------------------------------- subscribe
\* The key under which subscribe() stores the callback.
global_listener == 0

\* this.subscribers.set('global_listener', callback)
setSubscriberPerCallback(subs, callback) == (callback :> callback) @@ subs

setSubscriber(subs, callback) == (global_listener :> callback) @@ subs

\* if (!this.ws) this.connect(): the sockets and this.ws it leaves, whether
\* connect() was called and whether it created a WebSocket.
subscribeReconnects(socks, w, conn) ==
  IF conn THEN [sockets |-> socks, ws |-> w, created |-> 0, connectCalls |-> 0]
  ELSE LET n == Min(Reusable(socks, w))
       IN  [sockets |-> [socks EXCEPT ![n] = "CONNECTING"], ws |-> n,
            created |-> 1, connectCalls |-> 1]

subscribeConnectsIfDisconnected(socks, w, conn) ==
  IF ~conn
  THEN connect(socks, w) @@ [connectCalls |-> 1]
  ELSE [sockets |-> socks, ws |-> w, created |-> 0, connectCalls |-> 0]

subscribeConnects(socks, w, conn) ==
  IF w = 0
  THEN connect(socks, w) @@ [connectCalls |-> 1]
  ELSE [sockets |-> socks, ws |-> w, created |-> 0, connectCalls |-> 0]

\* ================================================================ App.tsx
\* Prices of the dashboard count units of 0.00005, half the tolerance of the
\* reconciler: two prices can differ by less than the tolerance, by exactly
\* the tolerance, and by more.
PriceThreshold == 2

\* clobTokenId '' of the placeholder token of a market without tokens.
NoClobId == 0

\* m.tokens.slice(0, 2)
TopTokens == 2

\* The price callback that the subscription effect passes to subscribe().
AppCallback == 1

\* A token (its tokenId and its clobTokenId are the same id) and a market;
\* volume stands for the metadata of a market.
Token(c, p) == [clobTokenId |-> c, price |-> p]

Market(i, v, toks) == [id |-> i, volume |-> v, tokens |-> toks]

Volumes == {1, 2}

\* Prices in the responses of the listing and metadata endpoints.
ListingPrices == {0, MaxTick}

\* Responses of getMarkets(): no market; one market with one token; a market
\* with two tokens followed by a market that has the placeholder token only.
Listings ==
  {<<>>} \cup
  {<<Market(1, v, <<Token(1, q)>>)>> : v \in Volumes, q \in ListingPrices} \cup
  {<<Market(1, v, <<Token(1, q1), Token(2, q2)>>),
     Market(2, v, <<Token(NoClobId, 0)>>)>> :
     v \in Volumes, q1 \in ListingPrices, q2 \in ListingPrices}

\* Responses of getMarket(id).
FreshMarkets(id) == {m \in UNION {Range(l) : l \in Listings} : m.id = id}

\* The ids of the tokens of a collection.
TokenIds(ms) ==
  UNION {{ms[i].tokens[j].clobTokenId : j \in 1..Len(ms[i].tokens)} :
           i \in 1..Len(ms)}

Abs(x) == IF x < 0 THEN -x ELSE x

\* m.tokens.findIndex(t => t.clobTokenId === assetId), counted from 1; 0 is
\* the -1 of no match.
findIndex(tokens, assetId) ==
  IF \E j \in 1..Len(tokens) : tokens[j].clobTokenId = assetId
  THEN Min({j \in 1..Len(tokens) : tokens[j].clobTokenId = assetId})
  ELSE 0

\* Math.abs(token.price - price) > 0.0001
PriceDiffersOrEqual(q, p) == Abs(q - p) >= PriceThreshold

PriceDiffers(q, p) == Abs(q - p) > PriceThreshold

\* The function the reconciler maps over prevMarkets: the record it returns
\* for m, whether it set changed, whether the record is m itself, and which
\* of its tokens are the token objects of m.
mapRecordCopies(m, assetId, price) ==
  LET tokenIndex == findIndex(m.tokens, assetId)
  IN  IF tokenIndex # 0 /\ PriceDiffers(m.tokens[tokenIndex].price, price)
      THEN [market |-> [m EXCEPT !.tokens[tokenIndex].price = price],
            changed |-> TRUE, same |-> FALSE,
            sameTokens |-> [j \in 1..Len(m.tokens) |-> j # tokenIndex]]
      ELSE [market |-> m, changed |-> FALSE, same |-> FALSE,
            sameTokens |-> [j \in 1..Len(m.tokens) |-> TRUE]]

mapRecord(m, assetId, price) ==
  LET tokenIndex == findIndex(m.tokens, assetId)
  IN  IF tokenIndex # 0 /\ PriceDiffers(m.tokens[tokenIndex].price, price)
      THEN [market |-> [m EXCEPT !.tokens[tokenIndex].price = price],
            changed |-> TRUE, same |-> FALSE,
            sameTokens |-> [j \in 1..Len(m.tokens) |-> j # tokenIndex]]
      ELSE [market |-> m, changed |-> FALSE, same |-> TRUE,
            sameTokens |-> [j \in 1..Len(m.tokens) |-> TRUE]]

\* Object identities after a merge that returned prevMarkets itself.
Untouched(prevMarkets) ==
  [container |-> TRUE,
   records |-> [i \in 1..Len(prevMarkets) |-> TRUE],
   tokens |-> [i \in 1..Len(prevMarkets) |->
                 [j \in 1..Len(prevMarkets[i].tokens) |-> TRUE]]]

\* The updater passed to setMarkets by the price callback: the collection it
\* returns, and which objects of it are the objects of prevMarkets (the
\* container, every record, every token).
mergeTickAlwaysNew(prevMarkets, assetId, price) ==
  LET mapped == [i \in 1..Len(prevMarkets) |->
                   mapRecord(prevMarkets[i], assetId, price)]
  IN  [markets |-> [i \in 1..Len(prevMarkets) |-> mapped[i].market],
       same |-> [container |-> FALSE,
                 records |-> [i \in 1..Len(prevMarkets) |-> mapped[i].same],
                 tokens |-> [i \in 1..Len(prevMarkets) |-> mapped[i].sameTokens]]]

mergeTick(prevMarkets, assetId, price) ==
  LET mapped == [i \in 1..Len(prevMarkets) |->
                   mapRecord(prevMarkets[i], assetId, price)]
      changed == \E i \in 1..Len(prevMarkets) : mapped[i].changed
  IN  IF changed
      THEN [markets |-> [i \in 1..Len(prevMarkets) |-> mapped[i].market],
            same |-> [container |-> FALSE,
                      records |-> [i \in 1..Len(prevMarkets) |-> mapped[i].same],
                      tokens |-> [i \in 1..Len(prevMarkets) |->
                                    mapped[i].sameTokens]]]
      ELSE [markets |-> prevMarkets, same |-> Untouched(prevMarkets)]

\* prev.tokens.find(pt => pt.tokenId === t.tokenId) of the metadata merge, as
\* an index; 0 for undefined.
find(tokens, tokenId) == findIndex(tokens, tokenId)

\* The updater passed to setMarket by the metadata poll of a row.
mergeMetadataTakesFresh(prev, freshData) == freshData

mergeMetadata(prev, freshData) ==
  [freshData EXCEPT !.tokens =
     [j \in 1..Len(freshData.tokens) |->
        LET existingToken == find(prev.tokens, freshData.tokens[j].clobTokenId)
        IN  [freshData.tokens[j] EXCEPT
               !.price = IF existingToken # 0
                         THEN prev.tokens[existingToken].price ELSE @]]]

\* tokensToSubscribe of the subscription effect: the clobTokenId of the first
\* two tokens of every market, the empty and the short ones dropped.
RECURSIVE topTokenIds(_)
topTokenIds(ms) ==
  IF ms = <<>> THEN <<>>
  ELSE [j \in 1..Min({TopTokens, Len(Head(ms).tokens)}) |->
          Head(ms).tokens[j].clobTokenId] \o topTokenIds(Tail(ms))

ValidId(id) == id # NoClobId

tokensToSubscribe(ms) == SelectSeq(topTokenIds(ms), ValidId)

\* The record every handler of the dashboard leaves in appEv.
QuietApp(op) ==
  [op |-> op,            \* the handler that ran
   assetId |-> 0,        \* tick: the instrument id
   price |-> 0,          \* tick: the price
   same |-> Untouched(<<>>),   \* tick: the objects the merge left in place
   row |-> 0,            \* poll: the row whose poll answered
   fresh |-> <<>>]       \* poll: the response, as a list of one record

\* The dashboard state the price callback works on.
AppState ==
  [markets |-> markets, wsConnected |-> wsConnected, rows |-> rows,
   ticked |-> ticked, appEv |-> appEv]

\* (assetId, price) => { setWsConnected(true); setMarkets(prev => ...) }, and
\* the rows whose initialMarket is a new object taking it over.
onPriceUpdate(st, assetId, price) ==
  LET r == mergeTick(st.markets, assetId, price)
  IN  [markets |-> r.markets,
       wsConnected |-> TRUE,
       rows |-> [i \in 1..Len(st.rows) |->
                   IF r.same.records[i] THEN st.rows[i] ELSE r.markets[i]],
       ticked |-> IF assetId \in TokenIds(st.markets)
                  THEN st.ticked \cup {assetId} ELSE st.ticked,
       appEv |-> [QuietApp("tick") EXCEPT
                    !.assetId = assetId, !.price = price, !.same = r.same]]

\* The callbacks of one message handler, in order.
RECURSIVE applyCalls(_, _)
applyCalls(st, calls) ==
  IF calls = <<>> THEN st
  ELSE applyCalls(onPriceUpdate(st, Head(calls).assetId, Head(calls).price),
                  Tail(calls))

\* Ids of CATEGORIES: one without apiTag and one with.
Categories == {"all", "crypto"}

\* A call of fetchData(): the category it read from its closure, and whether
\* no call has been made after it.
Request(category, latest) == [category |-> category, latest |-> latest]

NoRequest == Request("none", FALSE)

\* Another call is made: no earlier one is the latest any more.
Superseding(r) == Request(r.category, FALSE)

RemoveAt(s, k) ==
  [i \in 1..(Len(s) - 1) |-> IF i < k THEN s[i] ELSE s[i + 1]]

\* The dashboard as mounted.
AppInit ==
  /\ markets = <<>>
  /\ wsConnected = FALSE
  /\ expandedMarketId = 0
  /\ rows = <<>>
  /\ ticked = {}
  /\ appEv = QuietApp("mount")
  /\ activeCategory = "all"
  /\ inflight = <<>>
  /\ shown = NoRequest
  /\ lastOutcome = "none"

\* The manager as constructed; inbound is drawn from frames.
InitWith(frames) ==
  /\ inbound \in frames
  /\ sockets = [s \in Sockets |-> "FREE"]
  /\ ws = 0
  /\ subscribers = <<>>
  /\ statusListeners = {}
  /\ pendingSubscriptions = <<>>
  /\ isConnected = FALSE
  /\ heartbeatInterval = "null"
  /\ activeHeartbeats = 0
  /\ reconnectTimers = 0
  /\ everSubscribed = {}
  /\ everClosed = FALSE
  /\ subFrameOnWs = FALSE
  /\ supersededCbs = {}
  /\ ev = [op |-> "init", ids |-> {}, n |-> 0, cb |-> 0, wasConnected |-> FALSE,
           wsBefore |-> "null", connectCalls |-> 0, created |-> 0,
           sent |-> <<>>, calls |-> <<>>, notified |-> <<>>, threw |-> FALSE]

Init == InitWith({NoFrame}) /\ AppInit

\* A subscription frame is on this.ws after a step that left this.ws as w.
SubFrameAfter(created, sent) ==
  IF \E i \in 1..Len(sent) : IsSub(sent[i]) THEN TRUE
  ELSE IF created > 0 THEN FALSE ELSE subFrameOnWs

\* subscribe(assetIds, callback)
subscribe(assetIds, callback) ==
  IF Len(assetIds) = 0
  THEN /\ ev' = [Quiet("subscribe") EXCEPT !.cb = callback]
       /\ UNCHANGED <<inbound, sockets, ws, subscribers, statusListeners,
                      pendingSubscriptions, isConnected, heartbeatInterval,
                      activeHeartbeats, reconnectTimers, everSubscribed,
                      everClosed, subFrameOnWs>>
  ELSE /\ Reusable(sockets, ws) # {}
       /\ LET c == subscribeConnects(sockets, ws, isConnected)
              pend == AddAll(pendingSubscriptions, assetIds)
              f == IF isConnected
                   THEN flushPendingSubscriptions(pend, c.sockets, c.ws)
                   ELSE [sent |-> <<>>, pending |-> pend, threw |-> FALSE]
          IN  /\ sockets' = c.sockets
              /\ ws' = c.ws
              /\ subscribers' = setSubscriber(subscribers, callback)
              /\ pendingSubscriptions' = f.pending
              /\ everSubscribed' = everSubscribed \cup Range(assetIds)
              /\ subFrameOnWs' = SubFrameAfter(c.created, f.sent)
              /\ ev' = [Quiet("subscribe") EXCEPT
                          !.ids = Range(assetIds), !.n = Len(assetIds),
                          !.cb = callback,
                          !.connectCalls = c.connectCalls,
                          !.created = c.created,
                          !.sent = f.sent, !.threw = f.threw]
              /\ UNCHANGED <<inbound, statusListeners, isConnected, heartbeatInterval,
                             activeHeartbeats, reconnectTimers, everClosed>>

\* onStatusChange(callback)
onStatusChangeDeferred(l) ==
  /\ statusListeners' = statusListeners \cup {l}
  /\ ev' = Quiet("onStatusChange")
  /\ UNCHANGED <<inbound, sockets, ws, subscribers, pendingSubscriptions, isConnected,
                 heartbeatInterval, activeHeartbeats, reconnectTimers,
                 everSubscribed, everClosed, subFrameOnWs>>

onStatusChange(l) ==
  /\ statusListeners' = statusListeners \cup {l}
  /\ ev' = [Quiet("onStatusChange") EXCEPT
              !.notified = <<[listener |-> l, status |-> isConnected]>>]
  /\ UNCHANGED <<inbound, sockets, ws, subscribers, pendingSubscriptions, isConnected,
                 heartbeatInterval, activeHeartbeats, reconnectTimers,
                 everSubscribed, everClosed, subFrameOnWs>>

\* The function onStatusChange returned, called.
unsubscribeStatus(l) ==
  /\ l \in statusListeners
  /\ statusListeners' = statusListeners \ {l}
  /\ ev' = Quiet("unsubscribeStatus")
  /\ UNCHANGED <<inbound, sockets, ws, subscribers, pendingSubscriptions, isConnected,
                 heartbeatInterval, activeHeartbeats, reconnectTimers,
                 everSubscribed, everClosed, subFrameOnWs>>

\* ws.onopen: the transport s has connected.
onopen(s) ==
  /\ sockets[s] = "CONNECTING"
  /\ LET socks == [sockets EXCEPT ![s] = "OPEN"]
         f == flushPendingSubscriptions(pendingSubscriptions, socks, ws)
         h == IF f.threw
              THEN [hb |-> heartbeatInterval, active |-> activeHeartbeats]
              ELSE startHeartbeat(heartbeatInterval, activeHeartbeats)
     IN  /\ sockets' = socks
         /\ isConnected' = TRUE
         /\ pendingSubscriptions' = f.pending
         /\ heartbeatInterval' = h.hb
         /\ activeHeartbeats' = h.active
         /\ subFrameOnWs' = SubFrameAfter(0, f.sent)
         /\ ev' = [Quiet("open") EXCEPT
                     !.notified = notifyStatus(statusListeners, TRUE),
                     !.sent = f.sent, !.threw = f.threw]
  /\ UNCHANGED <<inbound, ws, subscribers, statusListeners, reconnectTimers,
                 everSubscribed, everClosed>>

\* ws.onmessage: frame arrives on the open transport s.
onmessage(s, frame) ==
  /\ sockets[s] = "OPEN"
  /\ LET calls ==
           CASE frame.kind = "garbage" -> <<>>
             [] frame.kind = "object"  ->
                  processUpdate(frame.items[1], subscribers).calls
             [] OTHER -> forEachProcess(frame.items, subscribers, <<>>)
     IN  ev' = [Quiet("message") EXCEPT !.calls = calls]
  /\ UNCHANGED <<inbound, sockets, ws, subscribers, statusListeners,
                 pendingSubscriptions, isConnected, heartbeatInterval,
                 activeHeartbeats, reconnectTimers, everSubscribed,
                 everClosed, subFrameOnWs>>

\* ws.onerror: logs only.
onerror(s) ==
  /\ s \in Live(sockets)
  /\ ev' = Quiet("error")
  /\ UNCHANGED <<inbound, sockets, ws, subscribers, statusListeners,
                 pendingSubscriptions, isConnected, heartbeatInterval,
                 activeHeartbeats, reconnectTimers, everSubscribed,
                 everClosed, subFrameOnWs>>

\* The server starts the closing handshake: readyState becomes CLOSING, the
\* close event follows in a later task.
closingHandshake(s) ==
  /\ sockets[s] = "OPEN"
  /\ sockets' = [sockets EXCEPT ![s] = "CLOSING"]
  /\ ev' = Quiet("closing")
  /\ UNCHANGED <<inbound, ws, subscribers, statusListeners, pendingSubscriptions,
                 isConnected, heartbeatInterval, activeHeartbeats,
                 reconnectTimers, everSubscribed, everClosed, subFrameOnWs>>

\* setTimeout(() => this.connect(), 5000), as the number of pending timers.
scheduleNone(n) == n

scheduleReconnect(n) == n + 1

\* ws.onclose: the transport s has closed (a failed connect included).
oncloseClearsPending(s) ==
  /\ s \in Live(sockets)
  /\ LET h == stopHeartbeat(heartbeatInterval, activeHeartbeats)
     IN  /\ sockets' = [sockets EXCEPT ![s] = IF s = ws THEN "CLOSED" ELSE "FREE"]
         /\ isConnected' = FALSE
         /\ heartbeatInterval' = h.hb
         /\ activeHeartbeats' = h.active
         /\ reconnectTimers' = scheduleReconnect(reconnectTimers)
         /\ everClosed' = TRUE
         /\ pendingSubscriptions' = <<>>
         /\ ev' = [Quiet("close") EXCEPT
                     !.notified = notifyStatus(statusListeners, FALSE)]
  /\ UNCHANGED <<inbound, ws, subscribers, statusListeners,
                 everSubscribed, subFrameOnWs>>

onclose(s) ==
  /\ s \in Live(sockets)
  /\ LET h == stopHeartbeat(heartbeatInterval, activeHeartbeats)
     IN  /\ sockets' = [sockets EXCEPT ![s] = IF s = ws THEN "CLOSED" ELSE "FREE"]
         /\ isConnected' = FALSE
         /\ heartbeatInterval' = h.hb
         /\ activeHeartbeats' = h.active
         /\ reconnectTimers' = scheduleReconnect(reconnectTimers)
         /\ everClosed' = TRUE
         /\ ev' = [Quiet("close") EXCEPT
                     !.notified = notifyStatus(statusListeners, FALSE)]
  /\ UNCHANGED <<inbound, ws, subscribers, statusListeners, pendingSubscriptions,
                 everSubscribed, subFrameOnWs>>

\* The reconnect timer fires: () => this.connect().
reconnectTimer ==
  /\ reconnectTimers > 0
  /\ CanConnect(sockets, ws)
  /\ LET c == connect(sockets, ws)
     IN  /\ sockets' = c.sockets
         /\ ws' = c.ws
         /\ subFrameOnWs' = SubFrameAfter(c.created, <<>>)
         /\ ev' = [Quiet("reconnectTimer") EXCEPT
                     !.connectCalls = 1, !.created = c.created]
  /\ reconnectTimers' = reconnectTimers - 1
  /\ UNCHANGED <<inbound, subscribers, statusListeners, pendingSubscriptions,
                 isConnected, heartbeatInterval, activeHeartbeats,
                 everSubscribed, everClosed>>

\* The keepalive interval fires.
heartbeatTick ==
  /\ activeHeartbeats > 0
  /\ ev' = [Quiet("heartbeat") EXCEPT
              !.sent = IF ws # 0 /\ sockets[ws] = "OPEN"
                       THEN <<PingFrame(sockets[ws])>> ELSE <<>>]
  /\ UNCHANGED <<inbound, sockets, ws, subscribers, statusListeners,
                 pendingSubscriptions, isConnected, heartbeatInterval,
                 activeHeartbeats, reconnectTimers, everSubscribed,
                 everClosed, subFrameOnWs>>

Next ==
  \/ \E ids \in IdLists, cb \in Cbs : subscribe(ids, cb)
      /\ UNCHANGED <<supersededCbs, appVars>>
  \/ \E l \in Listeners : onStatusChange(l)
      /\ UNCHANGED <<supersededCbs, appVars>>
  \/ \E l \in Listeners : unsubscribeStatus(l)
      /\ UNCHANGED <<supersededCbs, appVars>>
  \/ \E s \in Sockets : onopen(s)
      /\ UNCHANGED <<supersededCbs, appVars>>
  \/ \E s \in Sockets, frame \in SampleFrames : onmessage(s, frame)
      /\ UNCHANGED <<supersededCbs, appVars>>
  \/ \E s \in Sockets : onerror(s)
      /\ UNCHANGED <<supersededCbs, appVars>>
  \/ \E s \in Sockets : closingHandshake(s)
      /\ UNCHANGED <<supersededCbs, appVars>>
  \/ \E s \in Sockets : onclose(s)
      /\ UNCHANGED <<supersededCbs, appVars>>
  \/ reconnectTimer
      /\ UNCHANGED <<supersededCbs, appVars>>
  \/ heartbeatTick
      /\ UNCHANGED <<supersededCbs, appVars>>

Spec == Init /\ [][Next]_vars

\* The connection controller alone: one instrument is subscribed to, no
\* payload arrives; the reconnect timer, once set, fires.
LiveNext ==
  \/ \E cb \in Cbs : subscribe(<<1>>, cb)
      /\ UNCHANGED <<supersededCbs, appVars>>
  \/ \E l \in Listeners : onStatusChange(l)
      /\ UNCHANGED <<supersededCbs, appVars>>
  \/ \E l \in Listeners : unsubscribeStatus(l)
      /\ UNCHANGED <<supersededCbs, appVars>>
  \/ \E s \in Sockets : onopen(s)
      /\ UNCHANGED <<supersededCbs, appVars>>
  \/ \E s \in Sockets : onerror(s)
      /\ UNCHANGED <<supersededCbs, appVars>>
  \/ \E s \in Sockets : closingHandshake(s)
      /\ UNCHANGED <<supersededCbs, appVars>>
  \/ \E s \in Sockets : onclose(s)
      /\ UNCHANGED <<supersededCbs, appVars>>
  \/ reconnectTimer
      /\ UNCHANGED <<supersededCbs, appVars>>
  \/ heartbeatTick
      /\ UNCHANGED <<supersededCbs, appVars>>

LiveSpec ==
  /\ Init /\ [][LiveNext]_vars
  /\ WF_vars(reconnectTimer /\ UNCHANGED <<supersededCbs, appVars>>)

\* The callbacks that subscribe(.., cb) has replaced so far.
Superseded(cb) ==
  IF global_listener \in DOMAIN subscribers /\ subscribers[global_listener] # cb
  THEN supersededCbs \cup {subscribers[global_listener]}
  ELSE supersededCbs

\* The tick router on every payload of Frames: inbound is the payload, the
\* manager is subscribed to, its transport opens, and the payload arrives.
TickInit == InitWith(Frames) /\ AppInit

TickNext ==
  \/ \E cb \in Cbs : subscribe(<<1>>, cb)
      /\ supersededCbs' = Superseded(cb) /\ UNCHANGED appVars
  \/ \E s \in Sockets : onopen(s)
      /\ UNCHANGED <<supersededCbs, appVars>>
  \/ \E s \in Sockets : onmessage(s, inbound)
      /\ UNCHANGED <<supersededCbs, appVars>>

TickSpec == TickInit /\ [][TickNext]_vars

\* ------------------------------------------------- handlers of the dashboard
\* The price callback is invoked with (assetId, price).
priceUpdate(assetId, price) ==
  LET st == onPriceUpdate(AppState, assetId, price)
  IN  /\ markets' = st.markets
      /\ wsConnected' = st.wsConnected
      /\ rows' = st.rows
      /\ ticked' = st.ticked
      /\ appEv' = st.appEv
      /\ UNCHANGED expandedMarketId

\* fetchData(): the response of getMarkets() arrives and replaces the
\* collection; every row shows the market of the response.
fetchData(data) ==
  /\ markets' = data
  /\ rows' = data
  /\ ticked' = ticked \cap TokenIds(data)
  /\ appEv' = QuietApp("refresh")
  /\ UNCHANGED <<wsConnected, expandedMarketId>>

\* onToggle of the row of market id.
onToggle(id) ==
  /\ \E i \in 1..Len(markets) : markets[i].id = id
  /\ expandedMarketId' = IF expandedMarketId = id THEN 0 ELSE id
  /\ appEv' = QuietApp("toggle")
  /\ UNCHANGED <<markets, wsConnected, rows, ticked>>

\* The metadata poll of the expanded row i: the response of getMarket()
\* arrives.
pollMetadata(i, freshData) ==
  /\ i \in 1..Len(rows)
  /\ rows[i].id = expandedMarketId
  /\ freshData \in FreshMarkets(rows[i].id)
  /\ rows' = [rows EXCEPT ![i] = mergeMetadata(rows[i], freshData)]
  /\ appEv' = [QuietApp("poll") EXCEPT !.row = i, !.fresh = <<freshData>>]
  /\ UNCHANGED <<markets, wsConnected, expandedMarketId, ticked>>

MergeNext ==
  \/ \E assetId \in Ids, price \in 1..MaxTick : priceUpdate(assetId, price)
      /\ UNCHANGED <<mgrVars, supersededCbs, fetchVars>>
  \/ \E data \in Listings : fetchData(data)
      /\ UNCHANGED <<mgrVars, supersededCbs, fetchVars>>
  \/ \E id \in 1..2 : onToggle(id)
      /\ UNCHANGED <<mgrVars, supersededCbs, fetchVars>>
  \/ \E i \in 1..2, freshData \in UNION {Range(l) : l \in Listings} :
       pollMetadata(i, freshData)
      /\ UNCHANGED <<mgrVars, supersededCbs, fetchVars>>

MergeSpec == Init /\ [][MergeNext]_vars

\* ------------------------------------------ the dashboard on the manager
\* The subscription effect, which runs when markets.length has changed.
subscriptionEffect(before, after) ==
  IF Len(after) # Len(before) /\ Len(after) > 0
     /\ Len(tokensToSubscribe(after)) > 0
  THEN subscribe(tokensToSubscribe(after), AppCallback)
  ELSE UNCHANGED mgrVars

\* The listing arrives and the dashboard renders it.
listingArrives(data) ==
  /\ fetchData(data)
  /\ subscriptionEffect(markets, data)

\* A frame arrives on the transport; the callbacks the manager invokes are
\* the price callback of the dashboard.
tickArrives(s, frame) ==
  /\ onmessage(s, frame)
  /\ LET st == applyCalls(AppState, ev'.calls)
     IN  /\ markets' = st.markets
         /\ wsConnected' = st.wsConnected
         /\ rows' = st.rows
         /\ ticked' = st.ticked
         /\ appEv' = st.appEv
         /\ UNCHANGED expandedMarketId

\* Listings and payloads of UiSpec: a token priced far from every tick, so
\* that a tick replaces its record, and two listings of one market that
\* differ in their tokens.
UiListings ==
  {<<>>,
   <<Market(1, 2, <<Token(1, 0)>>)>>,
   <<Market(1, 1, <<Token(1, 0), Token(2, MaxPrice + PriceThreshold + 1)>>)>>,
   <<Market(1, 2, <<Token(1, 0)>>), Market(2, 2, <<Token(2, 0)>>)>>}

UiFrames ==
  SampleFrames \cup
  {[kind |-> "object", items |-> <<Obj(2, TRUE, <<Str(1)>>, Absent)>>]}

UiNext ==
  \/ \E data \in UiListings : listingArrives(data)
      /\ UNCHANGED <<supersededCbs, fetchVars>>
  \/ \E s \in Sockets : onopen(s)
      /\ UNCHANGED <<supersededCbs, appVars>>
  \/ \E s \in Sockets, frame \in UiFrames : tickArrives(s, frame)
      /\ UNCHANGED <<supersededCbs, fetchVars>>
  \/ \E s \in Sockets : closingHandshake(s)
      /\ UNCHANGED <<supersededCbs, appVars>>
  \/ \E s \in Sockets : onclose(s)
      /\ UNCHANGED <<supersededCbs, appVars>>
  \/ reconnectTimer
      /\ UNCHANGED <<supersededCbs, appVars>>
  \/ heartbeatTick
      /\ UNCHANGED <<supersededCbs, appVars>>

UiSpec == Init /\ [][UiNext]_vars

\* -------------------------------------------------- the listing requests
\* fetchData() up to its await: the request for the category of its closure
\* is under way.
startFetch(category) ==
  /\ inflight' = Append([k \in 1..Len(inflight) |-> Superseding(inflight[k])],
                        Request(category, TRUE))
  /\ shown' = Superseding(shown)
  /\ lastOutcome' = "pending"

\* fetchData() called by the refresh effect when the dashboard is entered,
\* by its interval timer, or by a refresh button.
refresh ==
  /\ Len(inflight) < MaxInFlight
  /\ startFetch(activeCategory)
  /\ appEv' = QuietApp("fetch")
  /\ UNCHANGED <<markets, wsConnected, expandedMarketId, rows, ticked,
                 activeCategory>>

\* setActiveCategory(category) of a category button; the refresh effect runs
\* again and calls fetchData().
setActiveCategory(category) ==
  /\ category # activeCategory
  /\ Len(inflight) < MaxInFlight
  /\ activeCategory' = category
  /\ startFetch(category)
  /\ appEv' = QuietApp("category")
  /\ UNCHANGED <<markets, wsConnected, expandedMarketId, rows, ticked>>

\* getMarkets() of the request at position k resolves with data: the rest of
\* fetchData() runs.
fetchResolves(k, data) ==
  /\ k \in 1..Len(inflight)
  /\ fetchData(data)
  /\ inflight' = RemoveAt(inflight, k)
  /\ shown' = inflight[k]
  /\ lastOutcome' = IF inflight[k].latest THEN "response" ELSE lastOutcome
  /\ UNCHANGED activeCategory

\* getMarkets() of the request at position k rejects: fetchData() sets the
\* error and leaves the collection.
fetchRejects(k) ==
  /\ k \in 1..Len(inflight)
  /\ inflight' = RemoveAt(inflight, k)
  /\ lastOutcome' = IF inflight[k].latest THEN "error" ELSE lastOutcome
  /\ appEv' = QuietApp("error")
  /\ UNCHANGED <<markets, wsConnected, expandedMarketId, rows, ticked,
                 activeCategory, shown>>

FetchNext ==
  \/ refresh
      /\ UNCHANGED <<mgrVars, supersededCbs>>
  \/ \E category \in Categories : setActiveCategory(category)
      /\ UNCHANGED <<mgrVars, supersededCbs>>
  \/ \E k \in 1..MaxInFlight, data \in UiListings : fetchResolves(k, data)
      /\ UNCHANGED <<mgrVars, supersededCbs>>
  \/ \E k \in 1..MaxInFlight : fetchRejects(k)
      /\ UNCHANGED <<mgrVars, supersededCbs>>

FetchSpec == Init /\ [][FetchNext]_vars

TypeOK ==
  /\ sockets \in [Sockets -> ReadyStates]
  /\ ws \in 0..MaxSockets
  /\ isConnected \in BOOLEAN
  /\ heartbeatInterval \in {"null", "active", "cleared"}
  /\ activeHeartbeats \in Nat
  /\ reconnectTimers \in Nat
  /\ everSubscribed \subseteq Ids
  /\ Range(pendingSubscriptions) \subseteq Ids
  /\ NoDup(pendingSubscriptions)
  /\ DOMAIN subscribers \subseteq {global_listener}
  /\ statusListeners \subseteq Listeners
  /\ inbound \in Frames \cup {NoFrame}
  /\ supersededCbs \subseteq Cbs
  /\ wsConnected \in BOOLEAN
  /\ Len(rows) = Len(markets)
  /\ ticked \subseteq Ids
  /\ activeCategory \in Categories
  /\ Len(inflight) <= MaxInFlight
  /\ lastOutcome \in {"none", "pending", "response", "error"}

\* ================================================================ claims
OpenOrConnecting == {s \in Sockets : sockets[s] \in {"OPEN", "CONNECTING"}}

SubFrames(sent) == SelectSeq(sent, IsSub)

\* C1. Resubscribe on reconnect: once a transport has closed, the first
\* subscription frame sent on the transport that replaced it contains every
\* instrument id ever passed to subscribe().
C1_ResubscribeOnReconnect ==
  [][ ( /\ everClosed'
        /\ SubFrames(ev'.sent) # <<>>
        /\ (ev'.created > 0 \/ ~subFrameOnWs) )
      => everSubscribed' \subseteq Range(SubFrames(ev'.sent)[1].assets_ids) ]_vars

\* C2. Dedup: in every frame handed to ws.send each instrument id appears at
\* most once in assets_ids.
C2_Dedup ==
  \A i \in 1..Len(ev.sent) : NoDup(ev.sent[i].assets_ids)

\* An id passed twice in one subscribe() call went out in a frame.
C2_Witness ==
  /\ ev.op = "subscribe"
  /\ ev.n = 2
  /\ ev.ids = {1}
  /\ ev.sent = <<SubFrame(<<1>>, "OPEN")>>

\* C3. First subscribe before any connection exists: it calls connect() once
\* and creates one transport; nothing is sent while this.ws is connecting;
\* when the first transport opens exactly one subscription frame is sent and
\* its assets_ids is exactly the set of ids subscribed so far.
C3_FirstSubscribe ==
  [][ /\ (ev'.op = "subscribe" /\ ev'.n > 0 /\ ws = 0)
         => /\ ev'.connectCalls = 1
            /\ ev'.created = 1
            /\ Cardinality(Live(sockets')) = 1
            /\ ev'.sent = <<>>
      /\ (ws' # 0 /\ sockets'[ws'] = "CONNECTING") => ev'.sent = <<>>
      /\ (ev'.op = "open" /\ ~everClosed)
         => /\ Len(ev'.sent) = 1
            /\ IsSub(ev'.sent[1])
            /\ NoDup(ev'.sent[1].assets_ids)
            /\ Range(ev'.sent[1].assets_ids) = everSubscribed ]_vars

\* The first transport opened and the frame carried both ids.
C3_Witness ==
  /\ ev.op = "open"
  /\ ~everClosed
  /\ everSubscribed = {1, 2}
  /\ Len(ev.sent) = 1
  /\ Range(ev.sent[1].assets_ids) = {1, 2}

\* C4. At most one transport is open or connecting at any time, over any
\* sequence of subscribe calls, opens, closes and reconnect-timer firings.
C4_SingleTransport ==
  Cardinality(OpenOrConnecting) <= 1

\* A reconnect has replaced a closed transport, and subscribe() was called
\* while the replacement was connecting.
C4_Witness ==
  /\ everClosed
  /\ ev.op = "subscribe"
  /\ ev.n > 0
  /\ ev.wsBefore = "CONNECTING"
  /\ Cardinality(OpenOrConnecting) = 1

\* C5. Every close event sets the state to disconnected, invokes every status
\* observer once with false, leaves no keepalive timer running and schedules
\* exactly one reconnect timer (and does not call connect() itself).
C5_OnClose ==
  [][ ev'.op = "close"
      => /\ isConnected' = FALSE
         /\ Len(ev'.notified) = Cardinality(statusListeners)
         /\ \A l \in statusListeners :
              \E i \in 1..Len(ev'.notified) :
                ev'.notified[i] = [listener |-> l, status |-> FALSE]
         /\ activeHeartbeats' = 0
         /\ heartbeatInterval' # "active"
         /\ reconnectTimers' = reconnectTimers + 1
         /\ ev'.connectCalls = 0
         /\ ev'.created = 0 ]_vars

\* An open transport with an observer and a running keepalive has closed.
C5_Witness ==
  /\ ev.op = "close"
  /\ ev.wasConnected
  /\ ev.notified = <<[listener |-> 1, status |-> FALSE]>>
  /\ heartbeatInterval = "cleared"
  /\ reconnectTimers = 1

\* this.ws is a transport that has closed.
Closed == ws # 0 /\ sockets[ws] = "CLOSED"

\* C6. Unbounded retry: whenever the transport is closed a reconnect timer is
\* pending, and (the timer being fair) every closed transport is followed by a
\* connect() that creates a new transport.
C6_UnboundedRetry ==
  /\ [](Closed => reconnectTimers > 0)
  /\ Closed ~> (ev.op = "reconnectTimer" /\ ev.created = 1 /\ ~Closed)

\* A transport that never opened has closed and the timer has replaced it.
C6_Witness ==
  /\ ev.op = "reconnectTimer"
  /\ ev.wsBefore = "CLOSED"
  /\ ev.created = 1
  /\ ~isConnected
  /\ heartbeatInterval = "null"
  /\ sockets[ws] = "CONNECTING"

\* C7, as claimed. Whenever subscribe() is called with ids while the manager
\* is not connected, whether no transport was ever created or the previous
\* one has closed, subscribe() invokes connect().
C7_SubscribeConnectsWhenDisconnected ==
  [][ ( /\ ev'.op = "subscribe"
        /\ ev'.n > 0
        /\ ~isConnected
        /\ (ws = 0 \/ sockets[ws] = "CLOSED") )
      => ev'.connectCalls >= 1 ]_vars

\* C7, amended. subscribe() called with ids invokes connect(), once, exactly
\* when this.ws is null, that is when no transport was ever created; once a
\* transport exists (connecting, open, closing or closed) it does not.
C7_SubscribeConnectsOnlyWithoutWs ==
  [][ (ev'.op = "subscribe" /\ ev'.n > 0)
      => /\ ev'.connectCalls = (IF ws = 0 THEN 1 ELSE 0)
         /\ ev'.created = ev'.connectCalls ]_vars

\* subscribe() was called after the transport had closed and left the
\* reconnect to the pending timer.
C7_Witness ==
  /\ ev.op = "subscribe"
  /\ ev.n > 0
  /\ ev.wsBefore = "CLOSED"
  /\ ~ev.wasConnected
  /\ ev.connectCalls = 0
  /\ reconnectTimers = 1

\* C8. subscribe() with ids while connected hands exactly one frame to
\* ws.send, holding the whole pending set with all the ids passed, and leaves
\* the pending set empty; the pending set is empty whenever the manager is
\* connected.
C8_SubscribeWhileConnectedFlushes ==
  [][ /\ (ev'.op = "subscribe" /\ ev'.n > 0 /\ isConnected)
         => /\ Len(ev'.sent) = 1
            /\ IsSub(ev'.sent[1])
            /\ Range(ev'.sent[1].assets_ids) =
                 Range(pendingSubscriptions) \cup ev'.ids
            /\ pendingSubscriptions' = <<>>
            /\ ~ev'.threw
      /\ isConnected' => pendingSubscriptions' = <<>> ]_vars

\* Two ids were subscribed on an open connection and went out in one frame.
C8_Witness ==
  /\ ev.op = "subscribe"
  /\ ev.wasConnected
  /\ ev.ids = {1, 2}
  /\ ev.sent = <<SubFrame(<<1, 2>>, "OPEN")>>
  /\ pendingSubscriptions = <<>>

\* The object of a single-object payload.
Tick == inbound.items[1]

\* The last handler was onmessage, for one object with an instrument id.
IsTick ==
  /\ ev.op = "message"
  /\ inbound.kind = "object"
  /\ Tick.t = "obj"
  /\ Tick.asset_id # 0

\* The lowest price of an ask list whose prices are all decimal strings.
Priced(asks) == \A i \in 1..Len(asks) : asks[i].t = "str"

LowestAsk(asks) ==
  CHOOSE p \in {asks[i].v : i \in 1..Len(asks)} :
    \A i \in 1..Len(asks) : p <= asks[i].v

\* C9. Price extraction priority: for a tick with an instrument id, a
\* non-empty ask list in any order and a last-trade price, the price delivered
\* to the callback is the lowest ask.
C9_LowestAskDelivered ==
  ( /\ IsTick
    /\ Tick.hasAsks
    /\ Len(Tick.asks) > 0
    /\ Priced(Tick.asks)
    /\ Tick.last_trade_price # Absent )
  => \A i \in 1..Len(ev.calls) : ev.calls[i].price = LowestAsk(Tick.asks)

\* C10. Zero-price suppression: no tick callback is invoked with a price that
\* is not strictly positive; a tick with an empty or absent ask list and no
\* last-trade field, or a last_trade_price of 0, invokes no callback.
C10_ZeroPriceSuppressed ==
  /\ \A i \in 1..Len(ev.calls) :
       ev.calls[i].price # NaN /\ ev.calls[i].price > 0
  /\ ( /\ IsTick
       /\ Len(Tick.asks) = 0
       /\ Tick.last_trade_price \in {Absent, NumZero, Str(0)} )
     => ev.calls = <<>>

\* A tick with an empty ask list and last_trade_price "0" arrived while a
\* callback was registered, and no callback ran.
C10_Witness ==
  /\ IsTick
  /\ Tick.hasAsks
  /\ Tick.asks = <<>>
  /\ Tick.last_trade_price = Str(0)
  /\ DOMAIN subscribers # {}
  /\ ev.calls = <<>>

\* Elements of the payload that are last-trade ticks for instrument a at price
\* p: an instrument id, an absent or empty ask list, last_trade_price p > 0.
FallbackTicks(a, p) ==
  {i \in 1..Len(inbound.items) :
     LET d == inbound.items[i]
     IN  /\ d.t = "obj"
         /\ d.asset_id = a
         /\ Len(d.asks) = 0
         /\ d.last_trade_price = Str(p)
         /\ p > 0}

\* Elements of the payload for instrument a with an ask at price p.
AskTicks(a, p) ==
  {i \in 1..Len(inbound.items) :
     LET d == inbound.items[i]
     IN  /\ d.t = "obj"
         /\ d.asset_id = a
         /\ \E k \in 1..Len(d.asks) : d.asks[k] = Str(p)}

\* The callback invocations of the last handler that carry (a, p).
CallsWith(a, p) ==
  {j \in 1..Len(ev.calls) : ev.calls[j].assetId = a /\ ev.calls[j].price = p}

\* C11. Last-trade fallback: every element of a payload that has an
\* instrument id, an absent or empty ask list and a last_trade_price p > 0
\* gets the callback invoked exactly once with (asset_id, p): when no element
\* of the payload carries an ask at p for the instrument, the invocations
\* with (asset_id, p) are as many as those elements.
C11_LastTradeFallback ==
  ev.op = "message" =>
    \A a \in Ids, p \in 1..MaxPrice :
      (FallbackTicks(a, p) # {} /\ AskTicks(a, p) = {})
        => Cardinality(CallsWith(a, p)) = Cardinality(FallbackTicks(a, p))

\* The transport has opened and has not yet closed: its close event is still
\* to come.
OpenedNotClosed == \E s \in Sockets : sockets[s] \in {"OPEN", "CLOSING"}

\* C12. Status latch: onStatusChange(cb) invokes cb exactly once, during the
\* registration itself, with the connection state of that moment: true if the
\* transport has opened and not yet closed, false otherwise; the state does
\* not change in the step.
C12_StatusLatch ==
  [][ev'.op = "onStatusChange" =>
       /\ Len(ev'.notified) = 1
       /\ ev'.notified[1].listener \in statusListeners'
       /\ ev'.notified[1].status = isConnected
       /\ isConnected = OpenedNotClosed
       /\ UNCHANGED <<isConnected, sockets, ws>>]_vars

\* An observer registered while the transport was open and was told true at
\* once.
C12_Witness ==
  /\ ev.op = "onStatusChange"
  /\ OpenedNotClosed
  /\ ev.notified = <<[listener |-> 1, status |-> TRUE]>>

\* An element that is null or has no instrument id.
Malformed(d) == d.t = "null" \/ d.asset_id = 0

\* The payload is no JSON, or one of its elements is malformed.
HasMalformed ==
  \/ inbound.kind = "garbage"
  \/ \E i \in 1..Len(inbound.items) : Malformed(inbound.items[i])

WellFormedItems == {i \in 1..Len(inbound.items) : ~Malformed(inbound.items[i])}

\* C19. Malformed frames are discarded silently: a payload that is no JSON,
\* and an element that is null or lacks an instrument id, invoke no callback
\* (the invocations are at most one per well-formed element and none carries
\* a missing id), no exception escapes the message handler, and connection
\* state, pending set and registered callback do not change.
C19_MalformedDiscarded ==
  [][(ev'.op = "message" /\ HasMalformed) =>
       /\ Len(ev'.calls) <= Cardinality(WellFormedItems)
       /\ \A j \in 1..Len(ev'.calls) : ev'.calls[j].assetId # 0
       /\ ~ev'.threw
       /\ UNCHANGED <<isConnected, sockets, ws, pendingSubscriptions,
                      subscribers>>]_vars

\* An array of null and a last-trade tick arrived: the null element was
\* dropped and the tick behind it reached the callback.
C19_Witness ==
  /\ ev.op = "message"
  /\ inbound.kind = "array"
  /\ inbound.items = <<NullItem, Obj(1, FALSE, <<>>, Str(MaxPrice))>>
  /\ Len(ev.calls) = 1
  /\ ev.calls[1].assetId = 1
  /\ isConnected

\* Every registered observer was invoked once with status, and no one else.
NotifiedOnce(notified, status) ==
  /\ Len(notified) = Cardinality(statusListeners)
  /\ \A l \in statusListeners :
       \E i \in 1..Len(notified) :
         notified[i] = [listener |-> l, status |-> status]

\* C20. Status observers are notified on transitions only: apart from the
\* invocation at registration, a step that changes the connection state
\* invokes every registered observer once with the new state, and a step that
\* leaves the state value as it was (a connection attempt that fails before
\* opening, say) invokes no observer.
C20_NotifiedOnTransitionsOnly ==
  [][ev'.op # "onStatusChange" =>
       /\ (isConnected' # isConnected => NotifiedOnce(ev'.notified, isConnected'))
       /\ (isConnected' = isConnected => ev'.notified = <<>>)]_vars

\* The records of ms that hold a token with id x.
Holding(ms, x) ==
  {i \in 1..Len(ms) :
     \E j \in 1..Len(ms[i].tokens) : ms[i].tokens[j].clobTokenId = x}

\* Every token with id x in ms has a price less than the tolerance away from
\* p (no token has id x included).
WithinTolerance(ms, x, p) ==
  \A i \in 1..Len(ms) : \A j \in 1..Len(ms[i].tokens) :
    ms[i].tokens[j].clobTokenId = x
      => Abs(ms[i].tokens[j].price - p) < PriceThreshold

\* C13. No-op merge: when a tick changes no record (its id matches no token,
\* or the price of the matched token is less than 1e-4 away from the tick
\* price), the reconciler returns the very collection it was given; it
\* returns a new container only if at least one record changed.
C13_NoOpMerge ==
  [][appEv'.op = "tick" =>
       /\ WithinTolerance(markets, appEv'.assetId, appEv'.price)
            => appEv'.same.container /\ markets' = markets
       /\ ~appEv'.same.container
            => \E i \in 1..Len(markets) :
                 ~appEv'.same.records[i] /\ markets'[i] # markets[i]]_vars

\* A tick arrived for a displayed token at a price below the tolerance away
\* from, but not equal to, the price shown, and the collection returned is
\* the one given.
C13_Witness ==
  /\ appEv.op = "tick"
  /\ appEv.same.container
  /\ Len(markets) = 2
  /\ \E i \in Holding(markets, appEv.assetId) :
       Abs(markets[i].tokens[findIndex(markets[i].tokens, appEv.assetId)].price
           - appEv.price) = 1

\* C14. Referential isolation: for every tick for instrument X and every
\* collection, each record that holds no token with id X is after the merge
\* the very object it was before.
C14_ReferentialIsolation ==
  [][appEv'.op = "tick" =>
       \A i \in 1..Len(markets) :
         i \notin Holding(markets, appEv'.assetId)
           => appEv'.same.records[i] /\ markets'[i] = markets[i]]_vars

\* A tick replaced the record that holds its token, and the other record of
\* the collection is the object it was.
C14_Witness ==
  /\ appEv.op = "tick"
  /\ ~appEv.same.container
  /\ \E i \in Holding(markets, appEv.assetId) : ~appEv.same.records[i]
  /\ \E i \in 1..Len(markets) :
       i \notin Holding(markets, appEv.assetId) /\ appEv.same.records[i]

\* What a tick (x, p) did to record i, whose token k has id x: nothing if
\* noop, else the record is a new one in which token k has price p and every
\* other token is the object it was, at its price.
MergedAt(i, k, p, noop) ==
  IF noop
  THEN appEv'.same.records[i] /\ markets'[i] = markets[i]
  ELSE /\ ~appEv'.same.records[i]
       /\ ~appEv'.same.tokens[i][k]
       /\ markets'[i].tokens[k].price = p
       /\ \A j \in 1..Len(markets[i].tokens) :
            j # k => /\ appEv'.same.tokens[i][j]
                     /\ markets'[i].tokens[j] = markets[i].tokens[j]

\* C15. Merge threshold: for a tick (X, p) matching a token with price q the
\* merge is a no-op exactly when |q - p| is below 1e-4; otherwise, exactly
\* 1e-4 included, the record is replaced by a new record whose token X has
\* price p, every other token of it keeping its identity and price.
C15_MergeThreshold ==
  [][appEv'.op = "tick" =>
       \A i \in Holding(markets, appEv'.assetId) :
         LET k == findIndex(markets[i].tokens, appEv'.assetId)
         IN  MergedAt(i, k, appEv'.price,
                      Abs(markets[i].tokens[k].price - appEv'.price)
                        < PriceThreshold)]_vars

\* C15, amended. The merge is a no-op exactly when |q - p| is at most 1e-4,
\* exactly 1e-4 included; the record is replaced, as described, when
\* |q - p| exceeds 1e-4.
C15_MergeThresholdInclusive ==
  [][appEv'.op = "tick" =>
       \A i \in Holding(markets, appEv'.assetId) :
         LET k == findIndex(markets[i].tokens, appEv'.assetId)
         IN  MergedAt(i, k, appEv'.price,
                      Abs(markets[i].tokens[k].price - appEv'.price)
                        <= PriceThreshold)]_vars

\* A tick arrived at a price exactly the tolerance away from the price of its
\* token, and the merge was a no-op.
C15_Witness ==
  /\ appEv.op = "tick"
  /\ appEv.same.container
  /\ \E i \in Holding(markets, appEv.assetId) :
       Abs(markets[i].tokens[findIndex(markets[i].tokens, appEv.assetId)].price
           - appEv.price) = PriceThreshold

\* The prices on display: market, token and price of every token of a row.
Displayed(rws) ==
  UNION {{[market |-> rws[i].id, token |-> rws[i].tokens[j].clobTokenId,
           price |-> rws[i].tokens[j].price] : j \in 1..Len(rws[i].tokens)} :
           i \in 1..Len(rws)}

\* C16. No clobbering by refresh: however ticks interleave with the responses
\* of the listing refresh and of the metadata poll, a response never changes
\* the displayed price of a token that has received a tick.
C16_NoClobberingByRefresh ==
  [][appEv'.op \in {"refresh", "poll"} =>
       \A t \in Displayed(rows), u \in Displayed(rows') :
         (t.market = u.market /\ t.token = u.token /\ t.token \in ticked)
           => u.price = t.price]_vars

\* C17. The connectivity indicator reflects the connection state: between
\* handlers, wsConnected is true exactly when the transport of the manager is
\* connected.
C17_IndicatorReflectsConnection == wsConnected = isConnected

\* C18. Single callback slot: after any sequence of subscribe() calls with
\* non-empty ids, the one registered callback is the callback of the latest
\* such call, and every forwarded tick invokes that callback, once, and no
\* other: a message invokes no callback but the registered one, at most once
\* per element of its payload, and never one that a later call replaced.
C18_SingleCallbackSlot ==
  [][/\ (ev'.op = "subscribe" /\ ev'.n > 0)
          => subscribers' = (global_listener :> ev'.cb)
     /\ ev'.op = "message"
          => /\ subscribers' = subscribers
             /\ Len(ev'.calls) <= Len(inbound.items)
             /\ \A i \in 1..Len(ev'.calls) :
                  /\ ev'.calls[i].cb = subscribers[global_listener]
                  /\ ev'.calls[i].cb \notin
                       supersededCbs \ {subscribers[global_listener]}]_vars

\* Callback 1 was registered and then replaced by callback 2; a tick arrived
\* and invoked callback 2 once, and nothing else.
C18_Witness ==
  /\ ev.op = "message"
  /\ inbound.kind = "object"
  /\ supersededCbs = {1}
  /\ Len(ev.calls) = 1
  /\ ev.calls[1].cb = 2

\* C21. Pending ids survive transport loss: ids passed to subscribe() while
\* the manager is not connected are added to the pending set; while it is not
\* connected no step but an open takes an id out of the pending set, a close
\* and a reconnect attempt included; and the next open sends all of them in
\* one frame.
C21_PendingSurvivesLoss ==
  [][/\ (ev'.op = "subscribe" /\ ~isConnected)
          => /\ Range(pendingSubscriptions') =
                  Range(pendingSubscriptions) \cup ev'.ids
             /\ ev'.sent = <<>>
     /\ (~isConnected /\ ev'.op # "open")
          => Range(pendingSubscriptions) \subseteq Range(pendingSubscriptions')
     /\ (ev'.op = "open" /\ pendingSubscriptions # <<>>)
          => /\ Len(ev'.sent) = 1
             /\ IsSub(ev'.sent[1])
             /\ ev'.sent[1].rs = "OPEN"
             /\ Range(ev'.sent[1].assets_ids) = Range(pendingSubscriptions)]_vars

\* After a transport was lost, a transport opened and the one frame it sent
\* holds both ids, which is every id that was ever subscribed to.
C21_Witness ==
  /\ ev.op = "open"
  /\ everClosed
  /\ everSubscribed = {1, 2}
  /\ Len(ev.sent) = 1
  /\ Range(ev.sent[1].assets_ids) = {1, 2}

\* C22. Keepalive runs only while connected: at most one keepalive timer is
\* active at a time, a timer is active exactly when a transport has opened and
\* its close event has not yet arrived, and every ping frame is sent on a
\* transport that is open.
C22_KeepaliveWhileConnected ==
  /\ activeHeartbeats <= 1
  /\ (activeHeartbeats = 1) <=> OpenedNotClosed
  /\ \A i \in 1..Len(ev.sent) :
       ~IsSub(ev.sent[i]) => ev.sent[i].rs = "OPEN"

\* The keepalive timer of a transport opened after an earlier one was lost
\* fires and sends a ping.
C22_Witness ==
  /\ ev.op = "heartbeat"
  /\ everClosed
  /\ activeHeartbeats = 1
  /\ Len(ev.sent) = 1
  /\ ~IsSub(ev.sent[1])

\* The positions of the tokens of a record that have the given tokenId.
TokensWithId(m, tokenId) ==
  {k \in 1..Len(m.tokens) : m.tokens[k].clobTokenId = tokenId}

\* C23. Per-market metadata merge preserves live prices: when the response of
\* a metadata poll is merged into the record of the expanded row, the id, the
\* volume and the list of token ids of the merged record are the response's;
\* a token whose id is also in the previous record has the previous record's
\* price, and a token absent from the previous record has the response's
\* price; no other row and no record of the collection changes.
C23_MetadataMergeKeepsPrices ==
  [][appEv'.op = "poll" =>
       LET i == appEv'.row
           freshData == appEv'.fresh[1]
           prev == rows[i]
           merged == rows'[i]
       IN  /\ merged.id = freshData.id
           /\ merged.volume = freshData.volume
           /\ Len(merged.tokens) = Len(freshData.tokens)
           /\ \A j \in 1..Len(freshData.tokens) :
                LET t == freshData.tokens[j]
                IN  /\ merged.tokens[j].clobTokenId = t.clobTokenId
                    /\ \A k \in TokensWithId(prev, t.clobTokenId) :
                         merged.tokens[j].price = prev.tokens[k].price
                    /\ TokensWithId(prev, t.clobTokenId) = {}
                         => merged.tokens[j].price = t.price
           /\ \A r \in 1..Len(rows) : r # i => rows'[r] = rows[r]
           /\ markets' = markets]_vars

\* A poll has answered with another volume and two tokens: the row shows the
\* response's volume, its first token kept the price that a tick had set and
\* not the response's, and its second token, which the row did not have,
\* shows the response's price.
C23_Witness ==
  /\ appEv.op = "poll"
  /\ Len(appEv.fresh[1].tokens) = 2
  /\ rows[appEv.row].volume = appEv.fresh[1].volume
  /\ rows[appEv.row].volume # markets[appEv.row].volume
  /\ rows[appEv.row].tokens[1].clobTokenId \in ticked
  /\ rows[appEv.row].tokens[1].price # appEv.fresh[1].tokens[1].price
  /\ Len(markets[appEv.row].tokens) = 1
  /\ rows[appEv.row].tokens[2].price = MaxTick

\* C24. Empty instrument set is not special-cased: subscribe(ids, cb) with an
\* empty ids list leaves the pending set as it is and sends no frame, stores
\* cb as the global tick callback, and calls connect() if there is no
\* transport yet.
C24_EmptyIdsNotSpecial ==
  [][(ev'.op = "subscribe" /\ ev'.n = 0) =>
       /\ pendingSubscriptions' = pendingSubscriptions
       /\ ev'.sent = <<>>
       /\ global_listener \in DOMAIN subscribers'
       /\ subscribers'[global_listener] = ev'.cb
       /\ ws = 0 => (ev'.connectCalls = 1 /\ ws' # 0)]_vars

\* C25. Connected flag implies an open transport: whenever isConnected is
\* true, this.ws exists and its readyState is OPEN; and every subscription
\* frame a flush sends is sent on a transport whose readyState is OPEN.
C25_ConnectedImpliesOpen ==
  /\ isConnected => (ws # 0 /\ sockets[ws] = "OPEN")
  /\ \A i \in 1..Len(ev.sent) :
       IsSub(ev.sent[i]) => ev.sent[i].rs = "OPEN"

\* C26. Every displayed instrument is subscribed: after every listing that
\* arrives, with the effects it triggers run, every qualifying instrument id
\* of the markets collection (the clobTokenId of the first two tokens of each
\* market, the invalid ones dropped) has been passed to subscribe(), also
\* when the collection has as many markets as the one it replaces.
C26_DisplayedAreSubscribed ==
  Range(tokensToSubscribe(markets)) \subseteq everSubscribed

\* C27. Listing responses match the active category: when no listing request
\* is in flight and the request made last has been answered, the response
\* that setMarkets() stored last is the response of that request, which is a
\* request for the active category.
C27_ListingMatchesCategory ==
  (inflight = <<>> /\ lastOutcome = "response")
    => (shown.latest /\ shown.category = activeCategory)

====
